---- MODULE Spec2Model ----
(***************************************************************************)
(* Model of python/samples/mem/clients/_client_creator.py: ClientCreator,  *)
(* the factory that turns a configuration dictionary into a chat           *)
(* completion client, optionally wrapped in recorders.                     *)
(*                                                                         *)
(* Python dictionaries that are iterated (args) are sequences of           *)
(* <<key, value>> pairs in insertion order; the config dictionary is only  *)
(* indexed and tested for membership and is a function on its keys.        *)
(* Strings are TLA+ strings; messages are built by concatenation as the    *)
(* code builds them.  Assertions are enabled (the interpreter's default).  *)
(* A configuration always holds provider, model and the tuning keys, and a *)
(* recorder sub-configuration always holds the keys its branch reads.      *)
(***************************************************************************)
EXTENDS Integers, Sequences, FiniteSets, TLC

\* Bound on the number of create_client calls in one behaviour.
MaxCalls == 2

VARIABLES
    config,      \* self.config of the current ClientCreator
    env,         \* the process environment (os.environ), as far as it is read
    pc,          \* position of create_client
    args,        \* local args of create_client, shared with the provider path
    client,      \* local client of create_client
    source,      \* local source (provenance string) of create_client
    error,       \* message of the AssertionError that ended the call, or ""
    trace,       \* logger calls made by the current create_client call, in order
    result,      \* the value the call returned
    nobj,        \* objects constructed by the current call
    enterCount,  \* logger.enter_function calls so far
    leaveCount,  \* logger.leave_function calls so far
    abortCount   \* create_client calls ended by an AssertionError so far

vars == <<config, env, pc, args, client, source, error, trace, result, nobj,
          enterCount, leaveCount, abortCount>>

-----------------------------------------------------------------------------
(* Python values *)

\* None where a string is expected (os.getenv of an unset variable).
None == "None"

\* None where a client object is expected (client = None).
NoClient == [cls |-> "NoneType"]

\* str.startswith
StartsWith(s, prefix) ==
    /\ Len(s) >= Len(prefix)
    /\ SubSeq(s, 1, Len(prefix)) = prefix

\* k in d, for a dict kept in insertion order
DictHas(d, k) == \E i \in 1..Len(d) : d[i][1] = k

\* d[k]
DictGet(d, k) == d[CHOOSE i \in 1..Len(d) : d[i][1] = k][2]

\* d[k] = v: a new key is appended, an existing key keeps its position
DictSet(d, k, v) ==
    IF DictHas(d, k)
    THEN [i \in 1..Len(d) |-> IF d[i][1] = k THEN <<k, v>> ELSE d[i]]
    ELSE Append(d, <<k, v>>)

\* d.keys()
DictKeys(d) == {d[i][1] : i \in 1..Len(d)}

\* s contains t as a substring
Contains(s, t) ==
    \E i \in 1..(Len(s) - Len(t) + 1) : SubSeq(s, i, i + Len(t) - 1) = t

-----------------------------------------------------------------------------
(* The inputs: configurations and environments *)

Providers == {"openai", "azure_openai", "trapi", "phi", "anthropic"}

Models ==
    {"gpt-4o-2024-11-20", "gpt-4.1", "gpt-4o-2024-08-06", "gpt-4o-2024-05-13",
     "gpt-4.1-2025-04-14", "o1-preview", "o1", "o3-mini", "o4-mini",
     "o4-mini-2025-04-16", "phi-x", "o9"}

ConfigApiKey == "sk-config-secret"
EnvApiKey == "phyagi-env-secret"

RecorderOptions == {"absent", "enabled", "disabled"}

BaseConfig(provider, model) ==
    [provider |-> provider, model |-> model,
     reasoning_effort |-> "high",
     max_completion_tokens |-> "4096", max_retries |-> "10",
     temperature |-> "0.8", presence_penalty |-> "0.1",
     frequency_penalty |-> "0.2", top_p |-> "1.0"]

MakeConfig(provider, model, hasKey, ccr, cr) ==
    BaseConfig(provider, model)
    @@ (IF hasKey THEN [api_key |-> ConfigApiKey] ELSE <<>>)
    @@ (IF ccr = "absent" THEN <<>>
        ELSE [ChatCompletionClientRecorder |->
                [enabled |-> (ccr = "enabled"), mode |-> "record",
                 session_name |-> "session.json"]])
    @@ (IF cr = "absent" THEN <<>>
        ELSE [ClientRecorder |->
                [enabled |-> (cr = "enabled"), mode |-> "replay",
                 session_filename |-> "replay.json"]])

Configs ==
    {MakeConfig(p, m, k, c1, c2) :
        p \in Providers, m \in Models, k \in BOOLEAN,
        c1 \in RecorderOptions, c2 \in RecorderOptions}

Environments == {[PHYAGI_API_KEY |-> v] : v \in {None, EnvApiKey}}

\* os.getenv
Getenv(name) == env[name]

-----------------------------------------------------------------------------
(* The external constructors *)

OpenAIChatCompletionClient(id, kwargs) ==
    [cls |-> "OpenAIChatCompletionClient", id |-> id, kwargs |-> kwargs,
     resolved_model |-> DictGet(kwargs, "model")]

AzureOpenAIChatCompletionClient(id, kwargs) ==
    [cls |-> "AzureOpenAIChatCompletionClient", id |-> id, kwargs |-> kwargs,
     resolved_model |-> DictGet(kwargs, "model")]

ChatCompletionClientRecorder(id, base, mode, session_file_path) ==
    [cls |-> "ChatCompletionClientRecorder", id |-> id, base_client |-> base,
     mode |-> mode, session_file_path |-> session_file_path]

\* get_bearer_token_provider(credential, scope)
get_bearer_token_provider(credential, scope) ==
    "<token_provider " \o credential \o " " \o scope \o ">"

-----------------------------------------------------------------------------
(* ClientCreator.__init__ and the state after construction *)

Init ==
    /\ config \in Configs
    /\ env \in Environments
    /\ pc = "idle"
    /\ args = <<>>
    /\ client = NoClient
    /\ source = ""
    /\ error = ""
    /\ trace = <<>>
    /\ result = NoClient
    /\ nobj = 0
    /\ enterCount = 0
    /\ leaveCount = 0
    /\ abortCount = 0

\* A new ClientCreator(config, logger) once the previous call has ended.
NewClientCreator ==
    /\ pc \in {"returned", "aborted"}
    /\ enterCount < MaxCalls
    /\ config' \in Configs
    /\ pc' = "idle"
    /\ args' = <<>>
    /\ client' = NoClient
    /\ source' = ""
    /\ error' = ""
    /\ trace' = <<>>
    /\ result' = NoClient
    /\ nobj' = 0
    /\ UNCHANGED <<env, enterCount, leaveCount, abortCount>>

-----------------------------------------------------------------------------
(* create_client, lines 12-33: enter_function and the shared arguments *)

\* Variant: only the 'o1' family is taken for reasoning models.
IsReasoningModelO1Only(model) == StartsWith(model, "o1")

\* args["model"].startswith("o")
IsReasoningModel(model) == StartsWith(model, "o")

SharedArgs(cfg) ==
    LET a0 == DictSet(<<>>, "model", cfg["model"])
    IN  IF IsReasoningModel(DictGet(a0, "model"))
        THEN DictSet(a0, "reasoning_effort", cfg["reasoning_effort"])
        ELSE LET a1 == DictSet(a0, "max_completion_tokens", cfg["max_completion_tokens"])
                 a2 == DictSet(a1, "max_retries", cfg["max_retries"])
                 a3 == DictSet(a2, "temperature", cfg["temperature"])
                 a4 == DictSet(a3, "presence_penalty", cfg["presence_penalty"])
                 a5 == DictSet(a4, "frequency_penalty", cfg["frequency_penalty"])
             IN  DictSet(a5, "top_p", cfg["top_p"])

LogCall(name, message) == [call |-> name, message |-> message]

CreateClientBegin ==
    /\ pc \in {"idle", "returned", "aborted"}
    /\ enterCount < MaxCalls
    /\ trace' = <<LogCall("enter_function", "")>>
    /\ enterCount' = enterCount + 1
    /\ args' = SharedArgs(config)
    /\ client' = NoClient
    /\ source' = ""
    /\ error' = ""
    /\ result' = NoClient
    /\ nobj' = 0
    /\ pc' = "dispatch"
    /\ UNCHANGED <<config, env, leaveCount, abortCount>>

\* Variant: the last provider branch is an else, so no provider is invalid.
ProviderBranchLastElse(provider) ==
    IF provider = "openai" THEN "create_oai_client"
    ELSE IF provider = "azure_openai" THEN "create_aoai_client"
    ELSE IF provider = "trapi" THEN "create_trapi_client"
    ELSE "create_phi_client"

\* The if/elif chain on the provider, lines 34-43.
ProviderBranch(provider) ==
    IF provider = "openai" THEN "create_oai_client"
    ELSE IF provider = "azure_openai" THEN "create_aoai_client"
    ELSE IF provider = "trapi" THEN "create_trapi_client"
    ELSE IF provider = "phi" THEN "create_phi_client"
    ELSE "assert"

\* An AssertionError leaves create_client: nothing after the assert runs.
Abort(message) ==
    /\ pc' = "aborted"
    /\ error' = message
    /\ abortCount' = abortCount + 1
    /\ UNCHANGED <<config, env, args, client, source, trace, result, nobj,
                   enterCount, leaveCount>>

\* A provider path returned (client, source).
Constructed(newArgs, newClient, newSource) ==
    /\ pc' = "log"
    /\ args' = newArgs
    /\ client' = newClient
    /\ source' = newSource
    /\ nobj' = nobj + 1
    /\ UNCHANGED <<config, env, error, trace, result,
                   enterCount, leaveCount, abortCount>>

\* else: assert False, "Invalid client provider"
InvalidProvider ==
    /\ pc = "dispatch"
    /\ ProviderBranch(config["provider"]) = "assert"
    /\ Abort("Invalid client provider")

-----------------------------------------------------------------------------
(* The four provider paths *)

OaiArgs(cfg, a) ==
    IF "api_key" \in DOMAIN cfg THEN DictSet(a, "api_key", cfg["api_key"]) ELSE a

create_oai_client ==
    /\ pc = "dispatch"
    /\ ProviderBranch(config["provider"]) = "create_oai_client"
    /\ LET a == OaiArgs(config, args)
       IN  Constructed(a, OpenAIChatCompletionClient(nobj + 1, a),
                       "  created through OpenAI")

\* Lines 88-99: an if, then an if/else whose else asserts.
AoaiMapping(model) ==
    LET first == IF model = "gpt-4o-2024-11-20"
                 THEN [azure_deployment |-> "gpt-4o",
                       azure_endpoint |-> "https://agentic1.openai.azure.com/"]
                 ELSE [azure_deployment |-> "", azure_endpoint |-> ""]
    IN  IF model = "gpt-4.1"
        THEN [ok |-> TRUE, azure_deployment |-> "gpt-4.1",
              azure_endpoint |-> "https://aipmaker.openai.azure.com/"]
        ELSE [ok |-> FALSE, azure_deployment |-> first.azure_deployment,
              azure_endpoint |-> first.azure_endpoint]

AoaiArgs(a, m) ==
    LET token_provider ==
            get_bearer_token_provider("DefaultAzureCredential()",
                                      "https://cognitiveservices.azure.com/.default")
        api_version == "2024-12-01-preview"
        a1 == DictSet(a, "azure_ad_token_provider", token_provider)
        a2 == DictSet(a1, "azure_deployment", m.azure_deployment)
        a3 == DictSet(a2, "azure_endpoint", m.azure_endpoint)
    IN  DictSet(a3, "api_version", api_version)

create_aoai_client ==
    /\ pc = "dispatch"
    /\ ProviderBranch(config["provider"]) = "create_aoai_client"
    /\ LET m == AoaiMapping(config["model"])
       IN  IF m.ok
           THEN LET a == AoaiArgs(args, m)
                IN  Constructed(a, AzureOpenAIChatCompletionClient(nobj + 1, a),
                                "  created through Azure OpenAI")
           ELSE Abort("Unsupported model")

\* Variant: the last model branch is an else, so no model is unsupported.
TrapiMappingLastElse(model) ==
    LET Dep(d) == [ok |-> TRUE, azure_deployment |-> d,
                   has_model_version |-> FALSE, model_version |-> ""]
        DepVer(d, v) == [ok |-> TRUE, azure_deployment |-> d,
                         has_model_version |-> TRUE, model_version |-> v]
    IN  IF model = "gpt-4o-2024-08-06" THEN Dep("gpt-4o_2024-08-06")
        ELSE IF model = "gpt-4o-2024-05-13" THEN Dep("gpt-4o_2024-05-13")
        ELSE IF model = "gpt-4o-2024-11-20" THEN Dep("gpt-4o_2024-11-20")
        ELSE IF model = "gpt-4.1-2025-04-14" THEN Dep("gpt-4.1_2025-04-14")
        ELSE IF model = "o1-preview" THEN Dep("o1-preview_2024-09-12")
        ELSE IF model = "o1" THEN Dep("o1_2024-12-17")
        ELSE IF model = "o3-mini" THEN DepVer("o3-mini_2025-01-31", "2025-01-31")
        ELSE DepVer("o4-mini_2025-04-16", "2025-04-16")

\* Lines 127-150: the elif chain; model_version is bound in three branches.
TrapiMapping(model) ==
    LET Dep(d) == [ok |-> TRUE, azure_deployment |-> d,
                   has_model_version |-> FALSE, model_version |-> ""]
        DepVer(d, v) == [ok |-> TRUE, azure_deployment |-> d,
                         has_model_version |-> TRUE, model_version |-> v]
    IN  IF model = "gpt-4o-2024-08-06" THEN Dep("gpt-4o_2024-08-06")
        ELSE IF model = "gpt-4o-2024-05-13" THEN Dep("gpt-4o_2024-05-13")
        ELSE IF model = "gpt-4o-2024-11-20" THEN Dep("gpt-4o_2024-11-20")
        ELSE IF model = "gpt-4.1-2025-04-14" THEN Dep("gpt-4.1_2025-04-14")
        ELSE IF model = "o1-preview" THEN Dep("o1-preview_2024-09-12")
        ELSE IF model = "o1" THEN Dep("o1_2024-12-17")
        ELSE IF model = "o3-mini" THEN DepVer("o3-mini_2025-01-31", "2025-01-31")
        ELSE IF model = "o4-mini" THEN DepVer("o4-mini_2025-04-16", "2025-04-16")
        ELSE IF model = "o4-mini-2025-04-16"
             THEN DepVer("o4-mini_2025-04-16", "2025-04-16")
        ELSE [ok |-> FALSE, azure_deployment |-> "",
              has_model_version |-> FALSE, model_version |-> ""]

\* Variant: model_version is forwarded for every model that binds it.
ForwardsModelVersionWhenBound(model) ==
    model \in {"o3-mini", "o4-mini", "o4-mini-2025-04-16"}

\* if model == "o3-mini": args["model_version"] = model_version
ForwardsModelVersion(model) == model = "o3-mini"

TrapiArgs(a, model, m) ==
    LET token_provider ==
            get_bearer_token_provider(
                "ChainedTokenCredential(AzureCliCredential(), DefaultAzureCredential())",
                "api://trapi/.default")
        trapi_suffix == "msraif/shared"
        endpoint == "https://trapi.research.microsoft.com/" \o trapi_suffix
        api_version == "2025-03-01-preview"
        a1 == DictSet(a, "azure_ad_token_provider", token_provider)
        a2 == DictSet(a1, "azure_deployment", m.azure_deployment)
        a3 == IF ForwardsModelVersion(model)
              THEN DictSet(a2, "model_version", m.model_version)
              ELSE a2
        a4 == DictSet(a3, "azure_endpoint", endpoint)
    IN  DictSet(a4, "api_version", api_version)

create_trapi_client ==
    /\ pc = "dispatch"
    /\ ProviderBranch(config["provider"]) = "create_trapi_client"
    /\ LET m == TrapiMapping(config["model"])
       IN  IF m.ok
           THEN LET a == TrapiArgs(args, config["model"], m)
                IN  Constructed(a, AzureOpenAIChatCompletionClient(nobj + 1, a),
                                "  created through TRAPI")
           ELSE Abort("Unsupported model")

\* Variant: a capability flag left on.
PhiModelInfoFunctionCalling ==
    [vision |-> FALSE, function_calling |-> TRUE, json_output |-> FALSE,
     family |-> "phi", structured_output |-> FALSE,
     multiple_system_messages |-> FALSE]

PhiModelInfo ==
    [vision |-> FALSE, function_calling |-> FALSE, json_output |-> FALSE,
     family |-> "phi", structured_output |-> FALSE,
     multiple_system_messages |-> FALSE]

PhiArgs(a) ==
    LET a1 == DictSet(a, "api_key", Getenv("PHYAGI_API_KEY"))
        a2 == DictSet(a1, "base_url", "https://gateway.phyagi.net/api")
    IN  DictSet(a2, "model_info", PhiModelInfo)

create_phi_client ==
    /\ pc = "dispatch"
    /\ ProviderBranch(config["provider"]) = "create_phi_client"
    /\ LET a == PhiArgs(args)
       IN  Constructed(a, OpenAIChatCompletionClient(nobj + 1, a),
                       "  created through Azure OpenAI")

-----------------------------------------------------------------------------
(* create_client, lines 45-74: logging, wrapping, return *)

\* "{}".format(v) of an argument value
Format(k, v) ==
    IF k = "model_info"
    THEN "{'vision': False, 'function_calling': False, 'json_output': False, "
         \o "'family': '" \o v.family \o "', 'structured_output': False, "
         \o "'multiple_system_messages': False}"
    ELSE v

\* Variant: the comprehension without its api_key filter.
ArgLinesUnfiltered(a) ==
    [i \in 1..Len(a) |->
        "    " \o a[i][1] \o ": " \o Format(a[i][1], a[i][2])]

\* The list comprehension of lines 50-52.
ArgLines(a) ==
    LET kept == SelectSeq(a, LAMBDA kv : kv[1] # "api_key")
    IN  [i \in 1..Len(kept) |->
            "    " \o kept[i][1] \o ": " \o Format(kept[i][1], kept[i][2])]

\* "\n".join(lines)
RECURSIVE Join(_)
Join(lines) ==
    IF Len(lines) = 0 THEN ""
    ELSE IF Len(lines) = 1 THEN lines[1]
    ELSE lines[1] \o "\n" \o Join(Tail(lines))

LogDetails ==
    /\ pc = "log"
    /\ trace' = trace \o
         << LogCall("info", "Client:  " \o client.resolved_model),
            LogCall("info", source),
            LogCall("info", "  Client args:\n" \o Join(ArgLines(args))) >>
    /\ pc' = "wrap1"
    /\ UNCHANGED <<config, env, args, client, source, error, result, nobj,
                   enterCount, leaveCount, abortCount>>

\* Variant: the first recorder is applied whenever its key is present.
WrapsChatCompletionClientRecorderIfPresent(cfg) ==
    "ChatCompletionClientRecorder" \in DOMAIN cfg

\* Lines 56-58: the first recorder is applied when present and enabled.
WrapsChatCompletionClientRecorder(cfg) ==
    /\ "ChatCompletionClientRecorder" \in DOMAIN cfg
    /\ cfg["ChatCompletionClientRecorder"]["enabled"]

WrapChatCompletionClientRecorder ==
    /\ pc = "wrap1"
    /\ IF WrapsChatCompletionClientRecorder(config)
       THEN LET wrapper_config == config["ChatCompletionClientRecorder"]
            IN  /\ client' = ChatCompletionClientRecorder(
                                 nobj + 1, client, wrapper_config["mode"],
                                 wrapper_config["session_name"])
                /\ nobj' = nobj + 1
       ELSE UNCHANGED <<client, nobj>>
    /\ pc' = "wrap2"
    /\ UNCHANGED <<config, env, args, source, error, trace, result,
                   enterCount, leaveCount, abortCount>>

\* Variant: the second recorder honours its enabled flag.
WrapsClientRecorderIfEnabled(cfg) ==
    /\ "ClientRecorder" \in DOMAIN cfg
    /\ cfg["ClientRecorder"]["enabled"]

\* Line 68: the second recorder is applied when present.
WrapsClientRecorder(cfg) == "ClientRecorder" \in DOMAIN cfg

WrapClientRecorder ==
    /\ pc = "wrap2"
    /\ IF WrapsClientRecorder(config)
       THEN LET wrapper_config == config["ClientRecorder"]
            IN  /\ client' = ChatCompletionClientRecorder(
                                 nobj + 1, client, wrapper_config["mode"],
                                 wrapper_config["session_filename"])
                /\ nobj' = nobj + 1
       ELSE UNCHANGED <<client, nobj>>
    /\ pc' = "leave"
    /\ UNCHANGED <<config, env, args, source, error, trace, result,
                   enterCount, leaveCount, abortCount>>

\* Variant: the return without the leave_function call.
CreateClientReturnNoLeave ==
    /\ pc = "leave"
    /\ result' = client
    /\ pc' = "returned"
    /\ UNCHANGED <<config, env, args, client, source, error, trace, nobj,
                   enterCount, leaveCount, abortCount>>

\* Lines 73-74: leave_function, return client.
CreateClientReturn ==
    /\ pc = "leave"
    /\ trace' = Append(trace, LogCall("leave_function", ""))
    /\ leaveCount' = leaveCount + 1
    /\ result' = client
    /\ pc' = "returned"
    /\ UNCHANGED <<config, env, args, client, source, error, nobj,
                   enterCount, abortCount>>

-----------------------------------------------------------------------------

Next ==
    \/ NewClientCreator
    \/ CreateClientBegin
    \/ InvalidProvider
    \/ create_oai_client
    \/ create_aoai_client
    \/ create_trapi_client
    \/ create_phi_client
    \/ LogDetails
    \/ WrapChatCompletionClientRecorder
    \/ WrapClientRecorder
    \/ CreateClientReturn

Spec == Init /\ [][Next]_vars

TypeOK ==
    /\ pc \in {"idle", "dispatch", "log", "wrap1", "wrap2", "leave",
               "returned", "aborted"}
    /\ enterCount \in 0..MaxCalls
    /\ leaveCount \in 0..MaxCalls
    /\ abortCount \in 0..MaxCalls

-----------------------------------------------------------------------------
(* Vocabulary of the properties *)

KnownProviders == {"openai", "azure_openai", "trapi", "phi"}

TuningKeys ==
    {"max_completion_tokens", "max_retries", "temperature",
     "presence_penalty", "frequency_penalty", "top_p"}

RecorderClass == "ChatCompletionClientRecorder"

\* The call has left the provider dispatch, by a constructed client or an abort.
PassedDispatch == pc \in {"log", "wrap1", "wrap2", "leave", "returned", "aborted"}

\* The client inside all recorder layers.
RECURSIVE Unwrapped(_)
Unwrapped(c) == IF c.cls = RecorderClass THEN Unwrapped(c.base_client) ELSE c

\* The number of recorder layers around a client.
RECURSIVE Layers(_)
Layers(c) == IF c.cls = RecorderClass THEN 1 + Layers(c.base_client) ELSE 0

\* The keyword arguments the client constructor received.
ConstructorArgs == Unwrapped(client).kwargs

InfoMessages == SelectSeq(trace, LAMBDA e : e.call = "info")

\* The model names each provider path maps, as the specification lists them.
MappedModels(provider) ==
    IF provider = "azure_openai" THEN {"gpt-4o-2024-11-20", "gpt-4.1"}
    ELSE IF provider = "trapi"
         THEN {"gpt-4o-2024-08-06", "gpt-4o-2024-05-13", "gpt-4o-2024-11-20",
               "gpt-4.1-2025-04-14", "o1-preview", "o1", "o3-mini", "o4-mini",
               "o4-mini-2025-04-16"}
    ELSE {}

\* The literals expected for each supported pair.
ExpectedDeployment(provider, model) ==
    IF provider = "azure_openai"
    THEN (IF model = "gpt-4o-2024-11-20" THEN "gpt-4o" ELSE "gpt-4.1")
    ELSE IF model = "gpt-4o-2024-08-06" THEN "gpt-4o_2024-08-06"
    ELSE IF model = "gpt-4o-2024-05-13" THEN "gpt-4o_2024-05-13"
    ELSE IF model = "gpt-4o-2024-11-20" THEN "gpt-4o_2024-11-20"
    ELSE IF model = "gpt-4.1-2025-04-14" THEN "gpt-4.1_2025-04-14"
    ELSE IF model = "o1-preview" THEN "o1-preview_2024-09-12"
    ELSE IF model = "o1" THEN "o1_2024-12-17"
    ELSE IF model = "o3-mini" THEN "o3-mini_2025-01-31"
    ELSE "o4-mini_2025-04-16"

ExpectedEndpoint(provider, model) ==
    IF provider = "azure_openai"
    THEN (IF model = "gpt-4o-2024-11-20"
          THEN "https://agentic1.openai.azure.com/"
          ELSE "https://aipmaker.openai.azure.com/")
    ELSE "https://trapi.research.microsoft.com/msraif/shared"

ExpectedApiVersion(provider) ==
    IF provider = "azure_openai" THEN "2024-12-01-preview" ELSE "2025-03-01-preview"

-----------------------------------------------------------------------------
(* C1 *)

\* C1: for every supported (provider, model) pair create_client does not
\* abort, and the constructor arguments hold the deployment name, endpoint
\* and API version written for that pair; the call returns a client.
C1_SupportedPairConstructs ==
    (/\ PassedDispatch
     /\ config["model"] \in MappedModels(config["provider"]))
    => /\ pc # "aborted"
       /\ client # NoClient
       /\ DictHas(ConstructorArgs, "azure_deployment")
       /\ DictGet(ConstructorArgs, "azure_deployment")
            = ExpectedDeployment(config["provider"], config["model"])
       /\ DictGet(ConstructorArgs, "azure_endpoint")
            = ExpectedEndpoint(config["provider"], config["model"])
       /\ DictGet(ConstructorArgs, "api_version")
            = ExpectedApiVersion(config["provider"])
       /\ (pc = "returned" => result # NoClient)

-----------------------------------------------------------------------------
(* C2 *)

\* C2 as stated: for each of the four known providers, a model the factory
\* does not map aborts with 'Unsupported model' and constructs nothing.
C2_UnmappedModelAbortsEveryProvider ==
    (/\ PassedDispatch
     /\ config["provider"] \in KnownProviders
     /\ config["model"] \notin MappedModels(config["provider"]))
    => /\ pc = "aborted"
       /\ error = "Unsupported model"
       /\ client = NoClient
       /\ result = NoClient

\* C2 amended: on the azure_openai and trapi paths a model the path does not
\* map aborts with 'Unsupported model' and no client is constructed or
\* returned; the openai and phi paths check no model name and construct a
\* client for every model.
C2_UnmappedModelAbortsMappingProviders ==
    /\ (/\ PassedDispatch
        /\ config["provider"] \in {"azure_openai", "trapi"}
        /\ config["model"] \notin MappedModels(config["provider"]))
       => /\ pc = "aborted"
          /\ error = "Unsupported model"
          /\ client = NoClient
          /\ result = NoClient
          /\ nobj = 0
    /\ (/\ PassedDispatch
        /\ config["provider"] \in {"openai", "phi"})
       => /\ pc # "aborted"
          /\ error = ""
          /\ Unwrapped(client).cls = "OpenAIChatCompletionClient"

C2_Witness ==
    /\ pc = "aborted"
    /\ config["provider"] = "trapi"
    /\ config["model"] = "phi-x"
    /\ error = "Unsupported model"

-----------------------------------------------------------------------------
(* C3 *)

\* C3: an unknown provider aborts with 'Invalid client provider': no client
\* constructor is called, no info message is logged, no recorder is applied
\* and nothing is returned.
C3_UnknownProviderAborts ==
    (/\ PassedDispatch
     /\ config["provider"] \notin KnownProviders)
    => /\ pc = "aborted"
       /\ error = "Invalid client provider"
       /\ nobj = 0
       /\ client = NoClient
       /\ Len(InfoMessages) = 0
       /\ result = NoClient

C3_Witness ==
    /\ pc = "aborted"
    /\ config["provider"] = "anthropic"
    /\ error = "Invalid client provider"
    /\ "ClientRecorder" \in DOMAIN config

-----------------------------------------------------------------------------
(* C4 *)

\* C4: whenever a client constructor was reached, its arguments hold
\* reasoning_effort and none of the six tuning keys if the model name begins
\* with "o", and all six tuning keys and no reasoning_effort otherwise.
C4_ReasoningOrTuningKeys ==
    client # NoClient
    => LET keys == DictKeys(ConstructorArgs) \cap (TuningKeys \cup {"reasoning_effort"})
       IN  IF StartsWith(config["model"], "o")
           THEN keys = {"reasoning_effort"}
           ELSE keys = TuningKeys

C4_Witness ==
    /\ pc = "returned"
    /\ config["provider"] = "openai"
    /\ config["model"] = "o9"
    /\ DictHas(ConstructorArgs, "reasoning_effort")

-----------------------------------------------------------------------------
(* C5 *)

\* C5: a call that returns with ChatCompletionClientRecorder present but not
\* enabled and no ClientRecorder key returns the very object the provider
\* path constructed; with the ClientRecorder key present the returned client
\* is a recorder, whatever the enabled flags say.
C5_RecorderGating ==
    pc = "returned"
    => /\ (/\ "ChatCompletionClientRecorder" \in DOMAIN config
           /\ ~config["ChatCompletionClientRecorder"]["enabled"]
           /\ "ClientRecorder" \notin DOMAIN config)
          => /\ result.cls # RecorderClass
             /\ result.id = 1
             /\ nobj = 1
       /\ "ClientRecorder" \in DOMAIN config
          => /\ result.cls = RecorderClass
             /\ result.session_file_path
                  = config["ClientRecorder"]["session_filename"]

C5_Witness ==
    /\ pc = "returned"
    /\ "ChatCompletionClientRecorder" \in DOMAIN config
    /\ ~config["ChatCompletionClientRecorder"]["enabled"]
    /\ "ClientRecorder" \notin DOMAIN config
    /\ result.cls = "AzureOpenAIChatCompletionClient"

-----------------------------------------------------------------------------
(* C6 *)

\* C6: no message passed to logger.info contains the value of the api_key
\* argument, whether it came from the config or from PHYAGI_API_KEY, and the
\* argument dump lists every other argument key.
C6_NoCredentialInLog ==
    /\ (DictHas(args, "api_key") /\ DictGet(args, "api_key") # None)
       => \A i \in 1..Len(trace) :
            ~Contains(trace[i].message, DictGet(args, "api_key"))
    /\ Len(InfoMessages) = 3
       => \A k \in DictKeys(args) \ {"api_key"} :
            Contains(InfoMessages[3].message, "    " \o k \o ": ")

C6_Witness ==
    /\ pc = "returned"
    /\ config["provider"] = "phi"
    /\ DictGet(args, "api_key") = EnvApiKey
    /\ Len(InfoMessages) = 3

-----------------------------------------------------------------------------
(* C7 *)

\* C7: on the phi path, for any model name, the constructor arguments hold
\* model_info with the five capability flags false and family "phi".
C7_PhiModelInfo ==
    (PassedDispatch /\ config["provider"] = "phi")
    => /\ client # NoClient
       /\ DictHas(ConstructorArgs, "model_info")
       /\ DictGet(ConstructorArgs, "model_info")
            = [vision |-> FALSE, function_calling |-> FALSE,
               json_output |-> FALSE, structured_output |-> FALSE,
               multiple_system_messages |-> FALSE, family |-> "phi"]

C7_Witness ==
    /\ pc = "returned"
    /\ config["provider"] = "phi"
    /\ config["model"] = "o1"
    /\ DictHas(ConstructorArgs, "model_info")

-----------------------------------------------------------------------------
(* C8 *)

\* The trace is enter_function, then info calls only, then leave_function.
Bracketed(t) ==
    /\ Len(t) >= 2
    /\ t[1].call = "enter_function"
    /\ t[Len(t)].call = "leave_function"
    /\ \A i \in 2..(Len(t) - 1) : t[i].call = "info"

\* C8 as stated: every call, however it ends, is bracketed by enter_function
\* and exactly one leave_function, so the two counts agree after any calls.
C8_EveryCallBracketed ==
    pc \in {"returned", "aborted"}
    => /\ Bracketed(trace)
       /\ enterCount = leaveCount

\* C8 amended: a call that returns is bracketed by enter_function first and
\* exactly one leave_function last, with every info call between them; a
\* call that aborts has logged enter_function only; so after any sequence of
\* calls the enter_function count is the leave_function count plus the
\* number of aborted calls.
C8_ReturnedCallBracketed ==
    /\ pc = "returned" => Bracketed(trace)
    /\ pc = "aborted" => trace = <<LogCall("enter_function", "")>>
    /\ pc \in {"idle", "returned", "aborted"}
       => enterCount = leaveCount + abortCount
    /\ pc \notin {"idle", "returned", "aborted"}
       => /\ enterCount = leaveCount + abortCount + 1
          /\ trace[1].call = "enter_function"
          /\ \A i \in 2..Len(trace) : trace[i].call = "info"

C8_Witness ==
    /\ pc = "returned"
    /\ abortCount = 1
    /\ leaveCount = 1
    /\ Len(trace) = 5

-----------------------------------------------------------------------------
(* C9 *)

\* C9: on the trapi path the constructor arguments hold model_version, with
\* value 2025-01-31, exactly when the model is o3-mini.
C9_ModelVersionOnlyO3Mini ==
    (client # NoClient /\ config["provider"] = "trapi")
    => /\ DictHas(ConstructorArgs, "model_version") <=> config["model"] = "o3-mini"
       /\ DictHas(ConstructorArgs, "model_version")
          => DictGet(ConstructorArgs, "model_version") = "2025-01-31"

C9_Witness ==
    /\ pc = "returned"
    /\ config["provider"] = "trapi"
    /\ config["model"] = "o3-mini"
    /\ DictHas(ConstructorArgs, "model_version")

-----------------------------------------------------------------------------
(* C10 *)

ExpectedLayers(cfg) ==
    (IF /\ "ChatCompletionClientRecorder" \in DOMAIN cfg
        /\ cfg["ChatCompletionClientRecorder"]["enabled"] THEN 1 ELSE 0)
    + (IF "ClientRecorder" \in DOMAIN cfg THEN 1 ELSE 0)

\* C10: a returned client carries one recorder layer for an enabled
\* ChatCompletionClientRecorder plus one for a present ClientRecorder; with
\* both, the ClientRecorder layer is outermost around the
\* ChatCompletionClientRecorder layer around the base client; and the three
\* info messages are logged from the unwrapped client before any wrap.
C10_RecorderLayers ==
    /\ pc = "returned"
       => /\ Layers(result) = ExpectedLayers(config)
          /\ Layers(result) = 2
             => /\ result.mode = config["ClientRecorder"]["mode"]
                /\ result.session_file_path
                     = config["ClientRecorder"]["session_filename"]
                /\ result.base_client.mode
                     = config["ChatCompletionClientRecorder"]["mode"]
                /\ result.base_client.session_file_path
                     = config["ChatCompletionClientRecorder"]["session_name"]
                /\ result.base_client.base_client.id = 1
    /\ Layers(client) > 0
       => /\ Len(InfoMessages) = 3
          /\ InfoMessages[1].message
               = "Client:  " \o Unwrapped(client).resolved_model
    /\ pc = "wrap1" => (Len(InfoMessages) = 3 /\ Layers(client) = 0)

C10_Witness ==
    /\ pc = "returned"
    /\ Layers(result) = 2
    /\ ~config["ClientRecorder"]["enabled"]

=============================================================================
